---- MODULE Spec2Model ----
(***************************************************************************)
(* Model of the concurrency primitives of clock_speed:                     *)
(*   - the self-resetting spin barrier (spin_barrier.h, second variant,    *)
(*     with the reset field), and                                          *)
(*   - the pstamp ring log (pstamp.h).                                     *)
(* The ring log is exercised in three ways: by calls made one at a time     *)
(* (RingSpec, ExtendSpec) and by calls of several threads that overlap     *)
(* (RaceSpec), where pstamp_log_extend and pstamp_log_enumerate advance    *)
(* one memory access or loop iteration at a time.                          *)
(* C `unsigned` is 32 bits wide.  A 32-bit word is kept as two 16-bit      *)
(* halves [hi, lo] so that every operation is computed modulo 2^32.        *)
(***************************************************************************)
EXTENDS Integers, Sequences, FiniteSets, TLC

(* ----------------------------- bounds ---------------------------------- *)
MaxCount == 3        \* largest barrier participant count explored
MaxRounds == 2       \* barrier rounds each thread runs
MaxInitCount == 8    \* barrier_init is applied to every count in 1..MaxInitCount
                     \* and to every power of two up to 2^31 and its neighbours
MaxSize == 2         \* largest ring capacity explored
MaxLogs == 3         \* pstamp_log calls the writer makes
MaxExtends == 2      \* pstamp_log_extend calls made
MaxStamps == 1       \* times the writer refills its cause object
MaxMergeLen == 3     \* most entries a ring handed to the merge retains
MaxTime == 6         \* largest time stamp among the entries merged
MaxIters == 2        \* most mutex ping/pong iterations main runs
MaxElems == 2        \* most elements of a CPU list handed to parse_cpu_list
MaxCycles == 5       \* the small cycle count among the readings tried

(* ------------------ 32-bit unsigned arithmetic ------------------------- *)
Half == 65536

U32(x) == [hi |-> x \div Half, lo |-> x % Half]

Zero32 == U32(0)

One32 == U32(1)

Add32(a, b) ==
    LET l == a.lo + b.lo
        h == a.hi + b.hi + (l \div Half)
    IN  [hi |-> h % Half, lo |-> l % Half]

Sub32(a, b) ==
    LET l == a.lo - b.lo
        borrow == IF l < 0 THEN 1 ELSE 0
        h == a.hi - b.hi - borrow
    IN  [hi |-> (h + Half) % Half, lo |-> (l + Half) % Half]

RECURSIVE And16(_, _)
And16(a, b) ==
    IF a = 0 \/ b = 0 THEN 0
    ELSE ((a % 2) * (b % 2)) + 2 * And16(a \div 2, b \div 2)

RECURSIVE Or16(_, _)
Or16(a, b) ==
    IF a = 0 THEN b
    ELSE IF b = 0 THEN a
    ELSE (IF a % 2 = 1 \/ b % 2 = 1 THEN 1 ELSE 0) + 2 * Or16(a \div 2, b \div 2)

And32(a, b) == [hi |-> And16(a.hi, b.hi), lo |-> And16(a.lo, b.lo)]

Or32(a, b) == [hi |-> Or16(a.hi, b.hi), lo |-> Or16(a.lo, b.lo)]

\* x >> k for 0 < k <= 16
Shr32(a, k) ==
    IF k = 16 THEN [hi |-> 0, lo |-> a.hi]
    ELSE [hi |-> a.hi \div (2 ^ k),
          lo |-> (a.lo \div (2 ^ k)) + (a.hi % (2 ^ k)) * (2 ^ (16 - k))]

Lt32(a, b) == a.hi < b.hi \/ (a.hi = b.hi /\ a.lo < b.lo)

Le32(a, b) == a = b \/ Lt32(a, b)

(* ------------------------- spin barrier -------------------------------- *)

\* the bit smear shared by both power-of-two helpers
Smear(x0) ==
    LET x1 == Or32(x0, Shr32(x0, 1))
        x2 == Or32(x1, Shr32(x1, 2))
        x3 == Or32(x2, Shr32(x2, 4))
        x4 == Or32(x3, Shr32(x3, 8))
    IN  Or32(x4, Shr32(x4, 16))

\* mutant: the decrement is left out
clp2_nodec(x) == Add32(Smear(x), One32)

\* mutant: rounds to the greatest power of two <= x
clp2_floor(x) == LET s == Smear(x) IN Sub32(s, Shr32(s, 1))

clp2(x) == Add32(Smear(Sub32(x, One32)), One32)

barrier_init(c) ==
    LET n == clp2(c)
    IN  [n |-> n, word |-> Sub32(n, c), reset |-> Sub32(n, c)]

\* first variant of spin_barrier.h: x - (x >> 1) of the smeared x
flp2(x) == LET s == Smear(x) IN Sub32(s, Shr32(s, 1))

\* first variant: barrier_t has word and n only
barrier_init_first(c) ==
    LET n == flp2(c)
    IN  [n |-> n, word |-> Sub32(n, c)]

\* mutant: the increment stops at the largest value instead of wrapping to 0
BARRIER_INC_saturating(w) ==
    IF w = [hi |-> Half - 1, lo |-> Half - 1] THEN w ELSE Add32(w, One32)

BARRIER_INC(w) == Add32(w, One32)

\* mutant: the correction is not added
BARRIER_ADD_none(w, k) == w

BARRIER_ADD(w, k) == Add32(w, k)

\* mutant: the test masks with n instead of n - 1
IsFollower_phase(v, n) == And32(v, n) # Zero32

\* v & (n - 1): nonzero for a follower, zero for the releaser
IsFollower(v, n) == And32(v, Sub32(n, One32)) # Zero32

\* mutant: the poll compares against the complement of the captured phase
StillSpinning_inverted(w, n, v) == And32(w, n) # v

\* the loop condition (BARRIER_GET(&barrier->word) & n) == v
StillSpinning(w, n, v) == And32(w, n) = v

Threads == 1..MaxCount

VARIABLES
    count,      \* argument of barrier_init
    quota,      \* per thread: number of barrier_wait calls it will make
    barrier,    \* barrier_t: n, word, reset
    pc,         \* per thread: position inside barrier_wait
    v,          \* per thread: the local v of barrier_wait
    arrived,    \* per thread: number of increments performed (ghost)
    done,       \* per thread: number of barrier_wait calls returned (ghost)
    hist,       \* per thread the round its call belongs to and the branch it
                \* took, per round the calls that took either branch and the
                \* corrections added, and whether some call was counted into a
                \* round other than its caller's own (ghost)
    icount,     \* barrier_init study: the count argument
    icalled,    \* barrier_init study: barrier_init has been called
    ibarrier,   \* barrier_init study: the barrier_t that barrier_init fills in
    rings,      \* ring id -> pstamp_ring_t
    handle,     \* the ring pointer the writer holds (returned by its last pstamp_log)
    clock,      \* the time stamp counter read by rdtscp
    stopped,    \* the writer has stopped recording
    written,    \* entries recorded so far, in call order (ghost)
    extCalls,   \* the pstamp_log_extend calls returned: ring, offered ring, result,
                \* the number of calls returned when it began, and what held of
                \* the ring when it was tested (ghost)
    enumerated, \* the rings enumerated since the last pstamp_log call
    visited,    \* ring id -> callback invocations of that enumeration, in order
    causeObj,   \* the writer's cause object, whose address it passes to pstamp_log
    where,      \* per pstamp_log call: the ring called on, the ring returned and
                \* the slot index stored at (ghost)
    wr,         \* the writer is inside pstamp_log, at the store of the entry,
                \* while other threads' calls go on
    freed,      \* main has released its ring
    ext,        \* per extender thread: position and arguments in pstamp_log_extend
    enum,       \* the enumerating thread: position and locals of pstamp_log_enumerate
    overlap,    \* whether calls made by different threads overlap in time
    minputs,    \* merge: per input ring, its retained entries, oldest first
    mcursor,    \* merge: per input ring, the number of entries consumed
    mout,       \* merge: the entries emitted so far, in order
    drv,        \* driver: both threads' positions and the data they share
    cpl,        \* parse_cpu_list: the text left, the set built, the value returned
    tm          \* timing macro: the readings, the overhead and the figure reported

bvars == <<count, quota, barrier, pc, v, arrived, done, hist>>

mvars == <<minputs, mcursor, mout>>

dvars == <<drv>>

pvars == <<cpl, tm>>

ivars == <<icount, icalled, ibarrier, mvars, dvars, pvars>>

rvars == <<rings, handle, clock, stopped, written, extCalls, enumerated, visited,
           causeObj, where, wr, freed, ext, enum, overlap>>

vars == <<bvars, ivars, rvars>>

\* the count threads the barrier was initialised for
Participants == 1..count

\* no barrier_wait call has been made
HistStart ==
    [round |-> [t \in Threads |-> 0],
     branch |-> [t \in Threads |-> "none"],
     rel |-> [K \in 1..(MaxCount * MaxRounds) |-> 0],
     fol |-> [K \in 1..(MaxCount * MaxRounds) |-> 0],
     adds |-> [K \in 1..(MaxCount * MaxRounds) |-> 0],
     skew |-> FALSE]

\* the increments performed so far by the threads 1..k
RECURSIVE Increments(_)
Increments(k) == IF k = 0 THEN 0 ELSE arrived[k] + Increments(k - 1)

\* the round of the next increment: increments 1..count make round 1, the
\* next count increments round 2, and so on
NextRound == (Increments(MaxCount) \div count) + 1

BarrierStart(c, q) ==
    /\ count = c
    /\ quota = q
    /\ barrier = barrier_init(U32(c))
    /\ pc = [t \in Threads |-> "idle"]
    /\ v = [t \in Threads |-> Zero32]
    /\ arrived = [t \in Threads |-> 0]
    /\ done = [t \in Threads |-> 0]
    /\ hist = HistStart

BarrierIdle ==
    /\ count = 1
    /\ quota = [t \in Threads |-> 0]
    /\ barrier = barrier_init(U32(1))
    /\ pc = [t \in Threads |-> "idle"]
    /\ v = [t \in Threads |-> Zero32]
    /\ arrived = [t \in Threads |-> 0]
    /\ done = [t \in Threads |-> 0]
    /\ hist = HistStart

NoBarrier == [n |-> Zero32, word |-> Zero32, reset |-> Zero32]

(* ------------------------- the driver ---------------------------------- *)
\* main and alt_thread_main of clock_speed.c from the first sync_barrier on,
\* as the sequence of their operations on shared data.  mtx_test is inlined
\* into both; its loop is the instructions MtxLoopStart .. the "loop" test.
DThreads == {"main", "alt"}

Program(th) ==
    IF th = "main"
    THEN << "sync", "pbarrier2", "arrive", "sync", "readarrival",
            "spin", "arrive", "sync", "readarrival", "sync", "poll1", "sync",
            "write2", "sync", "initmtx", "sync",
            "lock", "sync", "settest", "unlock", "sync", "loop", "sync",
            "sync", "join" >>
    ELSE << "sync", "pbarrier2", "arrive", "sync",
            "spin", "arrive", "sync", "sync", "write1", "sync",
            "poll2", "sync", "sync",
            "sync", "lock", "sync", "unlock", "sync", "loop",
            "sync", "exit" >>

\* the first instruction of the do-while loop of mtx_test
MtxLoopStart(th) == IF th = "main" THEN 17 ELSE 15

\* the first instruction after the call of mtx_test
AfterMtxTest(th) == IF th = "main" THEN 24 ELSE 20

Finished(th) == Len(Program(th)) + 1

DInstr(th) ==
    IF drv.pc[th] <= Len(Program(th)) THEN Program(th)[drv.pc[th]] ELSE "none"

DRunning(th) == drv.wait[th] = "no"

\* pthread_barrier_init(&barrier, NULL, 2): nobody waiting
PBarrierInit == [waiting |-> 0, gen |-> 0]

DriverStart(sc, n) ==
    [pc |-> [th \in DThreads |-> 1],
     wait |-> [th \in DThreads |-> "no"],
     sv |-> [th \in DThreads |-> Zero32],
     pgen |-> [th \in DThreads |-> 0],
     same_core |-> sc,
     spin_barrier |-> barrier_init(U32(2)),
     barrier |-> PBarrierInit,
     barrier2 |-> PBarrierInit,
     mtx |-> "free",
     mtx_test_done |-> FALSE,
     timestamp1 |-> FALSE,
     timestamp2 |-> FALSE,
     touches |-> 0,
     last |-> n,
     synced |-> [th \in DThreads |-> 0],
     mtxlog |-> <<>>,
     arrival1 |-> 0,
     arrival2 |-> 0,
     seen |-> <<>>]

\* the driver is not exercised
DriverIdle == drv = DriverStart(FALSE, 1)

\* parse_cpu_list has not been called
CpuListIdle == cpl = [pc |-> "idle", elems |-> << >>, clist |-> << >>, set |-> {}, ret |-> 0]

\* unsigned long is 64 bits wide: a pair [hi, lo] of 32-bit words
U64(h, l) == [hi |-> h, lo |-> l]

Zero64 == U64(Zero32, Zero32)

\* no measurement is being taken
TimeIdle ==
    tm = [pc |-> "idle", macro |-> "none", begin |-> Zero64, fini |-> Zero64,
          overhead |-> Zero64, elapsed |-> Zero64]

\* the functions studied on their own are not exercised
StudyIdle == CpuListIdle /\ TimeIdle

\* the rings handed to one merge
MergeInputs == {1, 2}

MergeIdle ==
    /\ minputs = [i \in MergeInputs |-> <<>>]
    /\ mcursor = [i \in MergeInputs |-> 0]
    /\ mout = <<>>

InitIdle ==
    /\ icount = One32
    /\ icalled = FALSE
    /\ ibarrier = NoBarrier
    /\ MergeIdle
    /\ DriverIdle
    /\ StudyIdle

\* the bookkeeping of a return from barrier_wait
Return(t) ==
    /\ pc' = [pc EXCEPT ![t] = "idle"]
    /\ v' = [v EXCEPT ![t] = Zero32]
    /\ done' = [done EXCEPT ![t] = @ + 1]

\* unsigned v = BARRIER_INC(&barrier->word);
Inc(t) ==
    /\ pc[t] = "idle"
    /\ arrived[t] < quota[t]
    /\ barrier' = [barrier EXCEPT !.word = BARRIER_INC(barrier.word)]
    /\ v' = [v EXCEPT ![t] = BARRIER_INC(barrier.word)]
    /\ pc' = [pc EXCEPT ![t] = "test"]
    /\ arrived' = [arrived EXCEPT ![t] = @ + 1]
    /\ hist' = [hist EXCEPT !.round[t] = NextRound, !.branch[t] = "none",
                            !.skew = @ \/ NextRound # arrived[t] + 1]
    /\ UNCHANGED <<count, quota, done, ivars, rvars>>

\* n = barrier->n; if (v & (n - 1)) { v &= n; ... }
BranchFollower(t) ==
    /\ pc[t] = "test"
    /\ IsFollower(v[t], barrier.n)
    /\ v' = [v EXCEPT ![t] = And32(v[t], barrier.n)]
    /\ pc' = [pc EXCEPT ![t] = "spin"]
    /\ hist' = [hist EXCEPT !.fol[hist.round[t]] = @ + 1, !.branch[t] = "follower"]
    /\ UNCHANGED <<count, quota, barrier, arrived, done, ivars, rvars>>

\* ... else if (barrier->reset), reset nonzero: go on to the atomic add
BranchReleaserAdd(t) ==
    /\ pc[t] = "test"
    /\ ~IsFollower(v[t], barrier.n)
    /\ barrier.reset # Zero32
    /\ pc' = [pc EXCEPT ![t] = "add"]
    /\ hist' = [hist EXCEPT !.rel[hist.round[t]] = @ + 1, !.branch[t] = "releaser"]
    /\ UNCHANGED <<count, quota, barrier, v, arrived, done, ivars, rvars>>

\* ... else if (barrier->reset), reset zero: barrier_wait returns
BranchReleaserReturn(t) ==
    /\ pc[t] = "test"
    /\ ~IsFollower(v[t], barrier.n)
    /\ barrier.reset = Zero32
    /\ Return(t)
    /\ hist' = [hist EXCEPT !.rel[hist.round[t]] = @ + 1, !.branch[t] = "releaser"]
    /\ UNCHANGED <<count, quota, barrier, arrived, ivars, rvars>>

\* BARRIER_ADD(&barrier->word, barrier->reset); then barrier_wait returns
Add(t) ==
    /\ pc[t] = "add"
    /\ barrier' = [barrier EXCEPT !.word = BARRIER_ADD(barrier.word, barrier.reset)]
    /\ Return(t)
    /\ hist' = [hist EXCEPT !.adds[hist.round[t]] = @ + 1]
    /\ UNCHANGED <<count, quota, arrived, ivars, rvars>>

\* the poll of the spin loop that finds the phase changed; a poll that finds
\* it unchanged leaves every variable as it is (a stuttering step)
SpinExit(t) ==
    /\ pc[t] = "spin"
    /\ ~StillSpinning(barrier.word, barrier.n, v[t])
    /\ Return(t)
    /\ UNCHANGED <<count, quota, barrier, arrived, hist, ivars, rvars>>

Inside(t) ==
    \/ BranchFollower(t)
    \/ BranchReleaserAdd(t)
    \/ BranchReleaserReturn(t)
    \/ Add(t)
    \/ SpinExit(t)

(* --------------------------- pstamp ring ------------------------------- *)
\* Ring indices are C unsigned int; no index here comes near 2^32, so they
\* are kept as naturals.  NULL is the ring id 0.
Rings == {1, 2, 3}

NULL == 0

Points == {1}

\* the logical processor rdtscp reports for the writer
WriterCpu == 0

\* the cause object before the writer fills it
Cause0 == [point |-> 0, logical_processor |-> WriterCpu, time |-> 0]

\* pstamp(): rdtscp gives the time and the logical processor
pstamp(point, now) == [point |-> point, logical_processor |-> WriterCpu, time |-> now]

\* log_pstamp(): the pstamp taken now, and a copy of *cause
log_pstamp(point, cause, now) == [pstamp |-> pstamp(point, now), cause |-> cause]

\* pstamp_ring_init leaves the slots as malloc returned them: any contents,
\* among them contents that look like a recorded entry
Indeterminate ==
    { [pstamp |-> [point |-> 0, logical_processor |-> 0, time |-> 0], cause |-> Cause0],
      log_pstamp(1, Cause0, 1) }

\* pstamp_ring_init takes any size, 0 included, and returns nothing
pstamp_ring_init(slots, size) ==
    [next_ring |-> NULL, size |-> size, next |-> 0, end |-> size,
     inactive |-> FALSE, overflows |-> 0, ring |-> slots]

\* mutant: the index wraps one position late
_wrap_late(n, size) == IF n <= size THEN n ELSE 0

_wrap(n, size) == IF n < size THEN n ELSE 0

\* a pointer value that is neither NULL nor the address of a ring
Wild == NULL - 1

\* the ring pstamp_log records into and returns, and the rings after the
\* full-ring test of pstamp_log (lines 101-109)
LogTarget(rs, r) ==
    IF rs[r].next = rs[r].end /\ rs[r].next_ring # NULL THEN rs[r].next_ring ELSE r

\* a variant of the full-ring test that, called on a ring already left,
\* takes the ring back into use
AfterFullTest_reuse(rs, r) ==
    IF rs[r].next = rs[r].end
    THEN IF rs[r].next_ring = NULL
         THEN [rs EXCEPT ![r].end = _wrap(rs[r].next + 1, rs[r].size),
                         ![r].next = _wrap(rs[r].next + 1, rs[r].size)]
         ELSE [rs EXCEPT ![r].inactive = ~rs[r].inactive]
    ELSE rs

AfterFullTest(rs, r) ==
    IF rs[r].next = rs[r].end
    THEN IF rs[r].next_ring = NULL
         THEN [rs EXCEPT ![r].end = _wrap(rs[r].next + 1, rs[r].size),
                         ![r].next = _wrap(rs[r].next + 1, rs[r].size)]
         ELSE [rs EXCEPT ![r].inactive = TRUE]
    ELSE rs

\* the slot index pstamp_log stores at (lines 110-111)
LogSlot(rs, r) ==
    LET rs1 == AfterFullTest(rs, r)
        t == LogTarget(rs, r)
    IN  _wrap(rs1[t].next + 1, rs1[t].size)

\* a variant of pstamp_log whose slots share one cause object: every slot
\* of the ring recorded into shows the cause passed last
pstamp_log_shared(rs, r, point, cause, now) ==
    LET rs1 == AfterFullTest(rs, r)
        t == LogTarget(rs, r)
        nx == LogSlot(rs, r)
    IN  [rs1 EXCEPT ![t].next = nx,
                    ![t].ring = [i \in DOMAIN @ |->
                                   IF i = nx THEN log_pstamp(point, cause, now)
                                   ELSE [@[i] EXCEPT !.cause = cause]]]

\* pstamp_log on ring r: the rings it leaves behind (lines 101-111).  The
\* entry goes to slot LogSlot of the ring LogTarget, which is a slot of that
\* ring whenever the ring has one (_wrap yields an index below size, or 0).
\* The rings a call is made on here are such rings (see RingSizes)
pstamp_log(rs, r, point, cause, now) ==
    LET rs1 == AfterFullTest(rs, r)
        t == LogTarget(rs, r)
        nx == LogSlot(rs, r)
    IN  [rs1 EXCEPT ![t].next = nx, ![t].ring[nx] = log_pstamp(point, cause, now)]

\* a variant of the test of pstamp_log_extend that looks at the successor
\* pointer only
ExtendOk_unlinked(rg) == rg.next_ring = NULL

\* a variant of the test of pstamp_log_extend that looks at the inactive
\* flag only
ExtendOk_active(rg) == ~rg.inactive

\* pstamp_log_extend: whether the attach is made
ExtendOk(rg) == ~rg.inactive /\ rg.next_ring = NULL

pstamp_log_overflows(rg) == rg.overflows

pstamp_log_extended(rg) == rg.next_ring # NULL

\* pstamp_log_enumerate: the callback's arguments, in call order.  The loop
\* runs from _wrap(end + 1, size) and stops only when i = last
RECURSIVE EnumerateFrom(_, _, _)
EnumerateFrom(rg, i, last) ==
    IF i = last THEN <<>>
    ELSE <<rg.ring[i]>> \o EnumerateFrom(rg, _wrap(i + 1, rg.size), last)

pstamp_log_enumerate(rg) ==
    EnumerateFrom(rg, _wrap(rg.end + 1, rg.size), rg.next)

\* a variant of pstamp_log_enumerate that runs its loop up to end
EnumLast_end(rg) == rg.end

\* the index at which the loop of pstamp_log_enumerate stops (line 158)
EnumLast(rg) == rg.next

\* the threads that call pstamp_log_extend
Extenders == {1, 2}

ExtIdle ==
    [pc |-> "idle", ring |-> NULL, offered |-> NULL, began |-> 0, early |-> FALSE,
     wasInactive |-> FALSE]

EnumIdle ==
    [pc |-> "idle", ring |-> NULL, size |-> 0, last |-> 0, i |-> 0,
     slots |-> <<>>, entries |-> <<>>, clean |-> TRUE]

\* The capacities of the three rings.  The writer starts on ring 1; rings 2
\* and 3, of equal capacity, are the spare rings offered as successors.
\* pstamp_ring_init takes any capacity, 0 included.  A pstamp_log call stores
\* at ring[next] of the ring it records into, which lies inside that ring's
\* storage only if the ring has a slot, so the rings the writer can come to
\* record into have one: ring 1, or, when ring 1 has none, ring 2 attached to
\* it before the first call
RingSizes ==
    {sz \in [Rings -> 0..MaxSize] : sz[2] = sz[3] /\ (sz[1] = 0 => sz[2] >= 1)}

\* the rings as pstamp_ring_init leaves them, ring r having sz[r] slots; a
\* ring 1 without slots has had ring 2 attached by
\* pstamp_log_extend(ring 1, ring 2), which returned true
RingStart(sz) ==
    /\ \E mem \in Indeterminate :
          rings = [r \in Rings |->
                      LET rg == pstamp_ring_init([i \in 0..(sz[r] - 1) |-> mem], sz[r])
                      IN  IF r = 1 /\ sz[1] = 0 THEN [rg EXCEPT !.next_ring = 2] ELSE rg]
    /\ extCalls = IF sz[1] = 0
                  THEN <<[ring |-> 1, offered |-> 2, ok |-> TRUE, began |-> 0,
                          early |-> FALSE, wasInactive |-> FALSE]>>
                  ELSE <<>>
    /\ handle = 1
    /\ clock = 0
    /\ stopped = FALSE
    /\ written = <<>>
    /\ enumerated = {}
    /\ visited = [r \in Rings |-> <<>>]
    /\ causeObj = Cause0
    /\ where = <<>>
    /\ wr = FALSE
    /\ freed = FALSE
    /\ ext = [e \in Extenders |-> ExtIdle]
    /\ enum = EnumIdle

RingIdle ==
    /\ rings = [r \in Rings |->
                  pstamp_ring_init([i \in 0..0 |-> log_pstamp(1, Cause0, 1)], 1)]
    /\ handle = 1
    /\ clock = 0
    /\ stopped = TRUE
    /\ written = <<>>
    /\ extCalls = <<>>
    /\ enumerated = {}
    /\ visited = [r \in Rings |-> <<>>]
    /\ causeObj = Cause0
    /\ where = <<>>
    /\ wr = FALSE
    /\ freed = FALSE
    /\ ext = [e \in Extenders |-> ExtIdle]
    /\ enum = EnumIdle
    /\ overlap = FALSE

\* nothing operates on the rings any more: main has released its ring (it
\* calls nothing on the ring after free)
Ended == freed

\* some thread is inside a call of pstamp_log_extend or pstamp_log_enumerate
InCall == enum.pc # "idle" \/ \E x \in Extenders : ext[x].pc # "idle"

\* a call may begin: calls overlap, or no other call is under way
MayCall == overlap \/ ~InCall

\* the ring pointers the writer has held: the first ring and every ring a
\* pstamp_log call has returned
Held == {1} \cup {where[k].ring : k \in 1..Len(where)}

\* the writer records one entry through ring pointer h, one it has held,
\* passing a pointer to its cause object, and keeps the returned ring as its
\* handle.  An enumeration made before the call, or running during it, no
\* longer tells what the ring holds.  When no other call goes on meanwhile
\* the call is one step.  Otherwise this step is lines 101-110, the test, the
\* move to the successor and the store of next, which read nothing another
\* thread writes but next_ring, and the store of the entry (line 111) is a
\* later step of the writer (LogStore)
Log(h, point) ==
    /\ ~stopped
    /\ ~Ended
    /\ ~wr
    /\ MayCall
    /\ h \in Held
    /\ Len(written) < MaxLogs
    /\ IF overlap
       THEN /\ rings' = [AfterFullTest(rings, h) EXCEPT
                            ![LogTarget(rings, h)].next = LogSlot(rings, h)]
            /\ wr' = TRUE
       ELSE /\ rings' = pstamp_log(rings, h, point, causeObj, clock + 1)
            /\ wr' = FALSE
    /\ handle' = LogTarget(rings, h)
    /\ clock' = clock + 1
    /\ written' = Append(written, [pstamp |-> [point |-> point,
                                               logical_processor |-> WriterCpu,
                                               time |-> clock + 1],
                                   cause |-> causeObj])
    /\ where' = Append(where, [on |-> h, ring |-> LogTarget(rings, h),
                               slot |-> LogSlot(rings, h)])
    /\ enumerated' = {}
    /\ visited' = [r \in Rings |-> <<>>]
    /\ enum' = IF enum.pc = "idle" THEN enum ELSE [enum EXCEPT !.clean = FALSE]
    /\ UNCHANGED <<stopped, extCalls, causeObj, ext, overlap, freed, bvars, ivars>>

\* a variant of the store that keeps the other threads out of the ring: it
\* waits until no pstamp_log_extend or pstamp_log_enumerate call is under way
LogStore_exclusive ==
    /\ ~Ended
    /\ wr
    /\ ~InCall
    /\ wr' = FALSE
    /\ rings' = [rings EXCEPT ![where[Len(where)].ring].ring[where[Len(where)].slot] =
                                 written[Len(written)]]
    /\ enumerated' = {}
    /\ visited' = [r \in Rings |-> <<>>]
    /\ enum' = IF enum.pc = "idle" THEN enum ELSE [enum EXCEPT !.clean = FALSE]
    /\ UNCHANGED <<handle, clock, stopped, written, extCalls, causeObj, where,
                   ext, overlap, freed, bvars, ivars>>

\* log_pstamp (line 111) while other threads' calls go on: pstamp_log has set
\* next and now stores the entry, field by field and without a lock (lines
\* 64-77), whatever the other threads are doing, and returns.  Until the
\* store is complete a reader of the slot gets a mix of old and new fields
\* (see SlotRead); here the store completes
LogStore ==
    /\ ~Ended
    /\ wr
    /\ wr' = FALSE
    /\ rings' = [rings EXCEPT ![where[Len(where)].ring].ring[where[Len(where)].slot] =
                                 written[Len(written)]]
    /\ enumerated' = {}
    /\ visited' = [r \in Rings |-> <<>>]
    /\ enum' = IF enum.pc = "idle" THEN enum ELSE [enum EXCEPT !.clean = FALSE]
    /\ UNCHANGED <<handle, clock, stopped, written, extCalls, causeObj, where,
                   ext, overlap, freed, bvars, ivars>>

\* the writer refills its cause object: pstamp(0, &cause_pstamp)
Stamp ==
    /\ ~stopped
    /\ ~Ended
    /\ ~wr
    /\ clock - Len(written) < MaxStamps
    /\ clock' = clock + 1
    /\ causeObj' = pstamp(0, clock + 1)
    /\ UNCHANGED <<rings, handle, stopped, written, extCalls, enumerated,
                   visited, where, ext, enum, overlap, wr, freed, bvars, ivars>>

\* the number of entries pstamp_log has stored in ring r
RECURSIVE StoredFrom(_, _)
StoredFrom(r, k) ==
    IF k = 0 THEN 0
    ELSE StoredFrom(r, k - 1) + (IF where[k].ring = r THEN 1 ELSE 0)

Stored(r) == StoredFrom(r, Len(where))

\* ring r has not yet received as many entries as it has slots
Early(r) == Stored(r) < rings[r].size

\* calls of pstamp_log_extend begun and not yet returned
InFlight == {x \in Extenders : ext[x].pc = "set"}

\* pstamp_log_extend(r, s), line 125: the test.  A call that fails the test
\* returns false at once.  The threads being interchangeable, the second one
\* calls only while the first is inside a call
ExtendCheck(e, r, s) ==
    /\ ~Ended
    /\ MayCall
    /\ ext[e].pc = "idle"
    /\ e = 1 \/ ext[1].pc = "set"
    /\ Len(extCalls) + Cardinality(InFlight) < MaxExtends
    /\ IF ExtendOk(rings[r])
       THEN /\ ext' = [ext EXCEPT ![e] = [pc |-> "set", ring |-> r, offered |-> s,
                                          began |-> Len(extCalls), early |-> Early(r),
                                          wasInactive |-> rings[r].inactive]]
            /\ UNCHANGED extCalls
       ELSE /\ extCalls' = Append(extCalls, [ring |-> r, offered |-> s, ok |-> FALSE,
                                             began |-> Len(extCalls), early |-> Early(r),
                                             wasInactive |-> rings[r].inactive])
            /\ UNCHANGED ext
    /\ UNCHANGED <<rings, handle, clock, stopped, written, enumerated, visited,
                   causeObj, where, enum, overlap, wr, freed, bvars, ivars>>

\* pstamp_log_extend, lines 126-129: the store of next_ring, and the return
\* of true
ExtendSet(e) ==
    /\ ~Ended
    /\ ext[e].pc = "set"
    /\ rings' = [rings EXCEPT ![ext[e].ring].next_ring = ext[e].offered]
    /\ extCalls' = Append(extCalls, [ring |-> ext[e].ring, offered |-> ext[e].offered,
                                     ok |-> TRUE, began |-> ext[e].began,
                                     early |-> ext[e].early,
                                     wasInactive |-> ext[e].wasInactive])
    /\ ext' = [ext EXCEPT ![e] = ExtIdle]
    /\ UNCHANGED <<handle, clock, stopped, written, enumerated, visited,
                   causeObj, where, enum, overlap, wr, freed, bvars, ivars>>

\* the writer stops recording: its last pstamp_log call has returned
Stop ==
    /\ ~stopped
    /\ ~Ended
    /\ ~wr
    /\ stopped' = TRUE
    /\ UNCHANGED <<rings, handle, clock, written, extCalls, enumerated, visited,
                   causeObj, where, ext, enum, overlap, wr, freed, bvars, ivars>>

\* free(pstamp_ring), clock_speed.c line 394: main releases its ring, the
\* one it allocated, once it has stopped recording.  The allocator may keep
\* the block as it is or write its own link and key over the first 16 bytes,
\* next_ring, size and next; main calls nothing on the ring afterwards
Free ==
    /\ stopped
    /\ ~Ended
    /\ ~InCall
    /\ freed' = TRUE
    /\ rings' \in {rings, [rings EXCEPT ![1].next_ring = Wild,
                                         ![1].size = 2 * MaxSize + 1,
                                         ![1].next = 2 * MaxSize + 2]}
    /\ UNCHANGED <<handle, clock, stopped, written, extCalls, enumerated, visited,
                   causeObj, where, wr, ext, enum, overlap, bvars, ivars>>

\* pstamp_log_enumerate(r, callback), line 157: size is read
EnumBegin(r) ==
    /\ ~Ended
    /\ MayCall
    /\ overlap \/ stopped \/ rings[r].inactive
    /\ enum.pc = "idle"
    /\ enum' = [EnumIdle EXCEPT !.pc = "last", !.ring = r, !.size = rings[r].size]
    /\ UNCHANGED <<rings, handle, clock, stopped, written, extCalls, enumerated,
                   visited, causeObj, where, ext, overlap, wr, freed, bvars, ivars>>

\* line 158: last is read from next
EnumReadLast ==
    /\ ~Ended
    /\ enum.pc = "last"
    /\ enum' = [enum EXCEPT !.pc = "start", !.last = EnumLast(rings[enum.ring])]
    /\ UNCHANGED <<rings, handle, clock, stopped, written, extCalls, enumerated,
                   visited, causeObj, where, ext, overlap, wr, freed, bvars, ivars>>

\* line 159: start is computed from end
EnumStart ==
    /\ ~Ended
    /\ enum.pc = "start"
    /\ enum' = [enum EXCEPT !.pc = "loop",
                            !.i = _wrap(rings[enum.ring].end + 1, enum.size)]
    /\ UNCHANGED <<rings, handle, clock, stopped, written, extCalls, enumerated,
                   visited, causeObj, where, ext, overlap, wr, freed, bvars, ivars>>

\* what the callback can find in slot i of ring r.  A slot the writer is
\* storing at reads as any mix of the fields it held and the fields being
\* stored: neither the store nor the callback's read is atomic
SlotRead(r, i) ==
    IF wr /\ where[Len(where)].ring = r /\ where[Len(where)].slot = i
    THEN LET old == rings[r].ring[i]
             new == written[Len(written)]
         IN  {[pstamp |-> [point |-> a.pstamp.point,
                           logical_processor |-> b.pstamp.logical_processor,
                           time |-> c.pstamp.time],
               cause |-> d.cause] :
                 a \in {old, new}, b \in {old, new}, c \in {old, new}, d \in {old, new}}
    ELSE {rings[r].ring[i]}

\* a variant of the loop of pstamp_log_enumerate that consumes the entry it
\* hands to the callback, moving end up to it
EnumVisit_consume ==
    /\ ~Ended
    /\ enum.pc = "loop"
    /\ enum.i # enum.last
    /\ \E got \in SlotRead(enum.ring, enum.i) :
          enum' = [enum EXCEPT !.i = _wrap(enum.i + 1, enum.size),
                               !.slots = Append(enum.slots, enum.i),
                               !.entries = Append(enum.entries, got)]
    /\ rings' = [rings EXCEPT ![enum.ring].end = enum.i]
    /\ UNCHANGED <<handle, clock, stopped, written, extCalls, enumerated,
                   visited, causeObj, where, ext, overlap, wr, freed, bvars, ivars>>

\* lines 161-165: one iteration of the loop, taken while i != last: the
\* callback is handed the address of slot i, and i moves on.  The function
\* stores nothing into the ring
EnumVisit ==
    /\ ~Ended
    /\ enum.pc = "loop"
    /\ enum.i # enum.last
    /\ \E got \in SlotRead(enum.ring, enum.i) :
          enum' = [enum EXCEPT !.i = _wrap(enum.i + 1, enum.size),
                               !.slots = Append(enum.slots, enum.i),
                               !.entries = Append(enum.entries, got)]
    /\ UNCHANGED <<rings, handle, clock, stopped, written, extCalls, enumerated,
                   visited, causeObj, where, ext, overlap, wr, freed, bvars, ivars>>

\* the loop ends (i = last) and pstamp_log_enumerate returns; what it
\* visited is kept when no pstamp_log call was made meanwhile
EnumReturn ==
    /\ ~Ended
    /\ enum.pc = "loop"
    /\ enum.i = enum.last
    /\ enum' = EnumIdle
    /\ IF enum.clean
       THEN /\ enumerated' = enumerated \cup {enum.ring}
            /\ visited' = [visited EXCEPT ![enum.ring] = enum.entries]
       ELSE UNCHANGED <<enumerated, visited>>
    /\ UNCHANGED <<rings, handle, clock, stopped, written, extCalls,
                   causeObj, where, ext, overlap, wr, freed, bvars, ivars>>

\* the writer records into ring 1, a second thread offers it the spare rings
\* and enumerates once the writer has stopped
RingNext ==
    \/ \E h \in Held : \E p \in Points : Log(h, p)
    \/ Stamp
    \/ \E s \in Rings \ {1} : ExtendCheck(1, 1, s)
    \/ \E e \in Extenders : ExtendSet(e)
    \/ Stop
    \/ Free
    \/ \E r \in Rings : EnumBegin(r)
    \/ EnumReadLast
    \/ EnumStart
    \/ EnumVisit
    \/ EnumReturn

(* --------------------------- specifications ---------------------------- *)
\* every one of the count threads calls barrier_wait once in each round
FullQuota(c) == [t \in Threads |-> IF t <= c THEN MaxRounds ELSE 0]

Init ==
    /\ \E c \in 1..MaxCount : BarrierStart(c, FullQuota(c))
    /\ InitIdle
    /\ RingIdle

Next ==
    \/ \E t \in Participants : Inc(t)
    \/ \E t \in Participants : BranchFollower(t)
    \/ \E t \in Participants : BranchReleaserAdd(t)
    \/ \E t \in Participants : BranchReleaserReturn(t)
    \/ \E t \in Participants : Add(t)
    \/ \E t \in Participants : SpinExit(t)

Spec == Init /\ [][Next]_vars

\* the threads run: a thread inside barrier_wait keeps executing
FairSpec == Spec /\ \A t \in Threads : WF_vars(Inside(t))

\* the barrier is initialised for count threads and any number of threads
\* call barrier_wait, each any number of times: some round gets fewer than
\* count calls, or more (the threads being interchangeable, the quotas are
\* taken in non-increasing order)
MisuseInit ==
    /\ \E c \in 1..MaxCount : \E q \in [Threads -> 0..MaxRounds] :
          /\ q # FullQuota(c)
          /\ \A t \in Threads : t > 1 => q[t] <= q[t - 1]
          /\ BarrierStart(c, q)
    /\ InitIdle
    /\ RingIdle

MisuseNext ==
    \/ \E t \in Threads : Inc(t)
    \/ \E t \in Threads : BranchFollower(t)
    \/ \E t \in Threads : BranchReleaserAdd(t)
    \/ \E t \in Threads : BranchReleaserReturn(t)
    \/ \E t \in Threads : Add(t)
    \/ \E t \in Threads : SpinExit(t)

MisuseSpec == MisuseInit /\ [][MisuseNext]_vars

(* ------------------- first variant of the barrier --------------------- *)
\* barrier_wait of the first variant increments, tests and spins as the
\* second does (Inc, BranchFollower, SpinExit); its releaser returns at once
\* and adds nothing.
FirstReleaserReturn(t) ==
    /\ pc[t] = "test"
    /\ ~IsFollower(v[t], barrier.n)
    /\ Return(t)
    /\ hist' = [hist EXCEPT !.rel[hist.round[t]] = @ + 1, !.branch[t] = "releaser"]
    /\ UNCHANGED <<count, quota, barrier, arrived, ivars, rvars>>

FirstInside(t) ==
    \/ BranchFollower(t)
    \/ FirstReleaserReturn(t)
    \/ SpinExit(t)

FirstInit ==
    /\ \E c \in 1..MaxCount :
          /\ count = c
          /\ quota = FullQuota(c)
          /\ barrier = barrier_init_first(U32(c))
          /\ pc = [t \in Threads |-> "idle"]
          /\ v = [t \in Threads |-> Zero32]
          /\ arrived = [t \in Threads |-> 0]
          /\ done = [t \in Threads |-> 0]
          /\ hist = HistStart
    /\ InitIdle
    /\ RingIdle

FirstNext ==
    \/ \E t \in Participants : Inc(t)
    \/ \E t \in Participants : BranchFollower(t)
    \/ \E t \in Participants : FirstReleaserReturn(t)
    \/ \E t \in Participants : SpinExit(t)

\* the threads run: a thread inside barrier_wait keeps executing
FirstSpec == FirstInit /\ [][FirstNext]_vars /\ \A t \in Threads : WF_vars(FirstInside(t))

(* ------------------------ barrier_init study --------------------------- *)
Pow2_32(k) == IF k < 16 THEN [hi |-> 0, lo |-> 2 ^ k] ELSE [hi |-> 2 ^ (k - 16), lo |-> 0]

TwoTo31 == Pow2_32(31)

CountSamples ==
    {U32(c) : c \in 1..MaxInitCount}
    \cup {Pow2_32(k) : k \in 0..31}
    \cup {Add32(Pow2_32(k), One32) : k \in 0..30}
    \cup {Sub32(Pow2_32(k), One32) : k \in 1..31}

InitCall ==
    /\ ~icalled
    /\ icalled' = TRUE
    /\ ibarrier' = barrier_init(icount)
    /\ UNCHANGED <<icount, mvars, dvars, pvars, bvars, rvars>>

InitStudyInit ==
    /\ icount \in CountSamples
    /\ icalled = FALSE
    /\ ibarrier = NoBarrier
    /\ MergeIdle
    /\ DriverIdle
    /\ StudyIdle
    /\ BarrierIdle
    /\ RingIdle

InitStudyNext == InitCall

InitSpec == InitStudyInit /\ [][InitStudyNext]_vars

\* barrier_init of the first variant, which takes n from flp2
FirstInitCall ==
    /\ ~icalled
    /\ icalled' = TRUE
    /\ ibarrier' = barrier_init_first(icount)
    /\ UNCHANGED <<icount, mvars, dvars, pvars, bvars, rvars>>

FirstInitNext == FirstInitCall

FirstInitSpec == InitStudyInit /\ [][FirstInitNext]_vars

(* ----------------------------- merge ---------------------------------- *)
\* pstamp.h announces a merging operation that enumerates several logs in
\* pstamp order, oldest entry first; the file defines none.  The merge is
\* taken as described: each input is read through a cursor, and each step
\* emits the head with the smallest time stamp, the lowest input first among
\* equal ones.

\* sequences of at most MaxMergeLen entries in non-decreasing time order
SortedLogs ==
    UNION {{q \in [1..len -> 1..MaxTime] :
                \A a \in 1..len : \A b \in 1..len : a <= b => q[a] <= q[b]}
           : len \in 0..MaxMergeLen}

\* the inputs that still have an entry to give
MergeHeads == {i \in MergeInputs : mcursor[i] < Len(minputs[i])}

MergeHead(i) == minputs[i][mcursor[i] + 1]

\* a variant of the choice that takes the inputs one after the other
MergePick_concat == CHOOSE i \in MergeHeads : \A j \in MergeHeads : i <= j

\* the input whose head is emitted next
MergePick ==
    CHOOSE i \in MergeHeads :
        \A j \in MergeHeads :
            \/ MergeHead(i) < MergeHead(j)
            \/ MergeHead(i) = MergeHead(j) /\ i <= j

MergeStep ==
    /\ MergeHeads # {}
    /\ mout' = Append(mout, [src |-> MergePick, pos |-> mcursor[MergePick] + 1,
                             time |-> MergeHead(MergePick)])
    /\ mcursor' = [mcursor EXCEPT ![MergePick] = @ + 1]
    /\ UNCHANGED <<minputs, dvars, pvars, icount, icalled, ibarrier, bvars, rvars>>

MergeInit ==
    /\ minputs \in [MergeInputs -> SortedLogs]
    /\ mcursor = [i \in MergeInputs |-> 0]
    /\ mout = <<>>
    /\ DriverIdle
    /\ StudyIdle
    /\ icount = One32
    /\ icalled = FALSE
    /\ ibarrier = NoBarrier
    /\ BarrierIdle
    /\ RingIdle

MergeNext == MergeStep

MergeSpec == MergeInit /\ [][MergeNext]_vars

\* one writer records into ring 1; rings are extended and enumerated
RingInit ==
    /\ \E sz \in RingSizes : RingStart(sz)
    /\ overlap = FALSE
    /\ BarrierIdle
    /\ InitIdle

RingSpec == RingInit /\ [][RingNext]_vars

\* pstamp_log_extend is called with any pair of rings, and the writer calls
\* pstamp_log through any ring pointer it has held
ExtendNext ==
    \/ \E h \in Held : \E p \in Points : Log(h, p)
    \/ \E r \in Rings : \E s \in Rings : ExtendCheck(1, r, s)
    \/ \E e \in Extenders : ExtendSet(e)

ExtendSpec == RingInit /\ [][ExtendNext]_vars

\* the same rings used by threads whose calls overlap: the writer records
\* while other threads extend and enumerate
RaceNext ==
    \/ \E p \in Points : Log(handle, p)
    \/ LogStore
    \/ \E e \in Extenders : \E s \in Rings \ {1} : ExtendCheck(e, 1, s)
    \/ \E e \in Extenders : ExtendSet(e)
    \/ \E r \in Rings : EnumBegin(r)
    \/ EnumReadLast
    \/ EnumStart
    \/ EnumVisit
    \/ EnumReturn

RaceInit ==
    /\ \E sz \in RingSizes : RingStart(sz)
    /\ overlap = TRUE
    /\ BarrierIdle
    /\ InitIdle

RaceSpec == RaceInit /\ [][RaceNext]_vars

\* The same threads on rings that all have slots, the spare rings one each.
\* The writer's thread keeps executing, so a step of its own that it can
\* take it does take; nothing is assumed of the other threads, which may
\* stop anywhere, in the middle of a call too
WriterInit ==
    /\ \E sz \in RingSizes : sz[1] >= 1 /\ sz[2] = 1 /\ RingStart(sz)
    /\ rings[1].ring[0] = log_pstamp(1, Cause0, 1)
    /\ overlap = TRUE
    /\ BarrierIdle
    /\ InitIdle

WriterFairSpec ==
    /\ WriterInit
    /\ [][RaceNext]_vars
    /\ WF_vars((\E p \in Points : Log(handle, p)) \/ LogStore)

\* the enumerating thread keeps executing: a step of a pstamp_log_enumerate
\* call under way is taken; nothing is assumed of the writer and of the
\* extending threads
EnumFairSpec ==
    /\ WriterInit
    /\ [][RaceNext]_vars
    /\ WF_vars(EnumReadLast \/ EnumStart \/ EnumVisit \/ EnumReturn)

\* pstamp_log_extend as a function of the two structures it is handed:
\* struct pstamp_ring is declared in the header and the function reads
\* inactive and next_ring of whatever its caller passes.  Every ring starts
\* with any successor pointer and either value of inactive, among them the
\* values the ring operations leave
ExtendCallInit ==
    /\ \E nr \in [Rings -> Rings \cup {NULL}] : \E ia \in [Rings -> BOOLEAN] :
          rings = [r \in Rings |->
                      [pstamp_ring_init([i \in 0..0 |-> log_pstamp(1, Cause0, 1)], 1)
                          EXCEPT !.next_ring = nr[r], !.inactive = ia[r]]]
    /\ handle = 1
    /\ clock = 0
    /\ stopped = TRUE
    /\ written = <<>>
    /\ extCalls = <<>>
    /\ enumerated = {}
    /\ visited = [r \in Rings |-> <<>>]
    /\ causeObj = Cause0
    /\ where = <<>>
    /\ wr = FALSE
    /\ freed = FALSE
    /\ ext = [e \in Extenders |-> ExtIdle]
    /\ enum = EnumIdle
    /\ overlap = FALSE
    /\ BarrierIdle
    /\ InitIdle

ExtendCallNext ==
    \/ \E r \in Rings : \E s \in Rings : ExtendCheck(1, r, s)
    \/ \E e \in Extenders : ExtendSet(e)

ExtendCallSpec == ExtendCallInit /\ [][ExtendCallNext]_vars

(* ------------------------- the driver: steps --------------------------- *)
DStep(th) == [drv EXCEPT !.pc[th] = @ + 1]

DUsesSpin(th) == DInstr(th) = "spin" \/ (DInstr(th) = "sync" /\ ~drv.same_core)

DUsesPthread(th) == DInstr(th) = "pbarrier2" \/ (DInstr(th) = "sync" /\ drv.same_core)

\* barrier_wait(&shared->spin_barrier): the increment and the test of v; the
\* barrier was initialised for 2, so reset is 0 and the releaser returns
DSpinEnter(th) ==
    /\ DRunning(th) /\ DUsesSpin(th)
    /\ LET w == BARRIER_INC(drv.spin_barrier.word)
           n == drv.spin_barrier.n
       IN  drv' = IF IsFollower(w, n)
                  THEN [drv EXCEPT !.spin_barrier.word = w,
                                   !.wait[th] = "spin",
                                   !.sv[th] = And32(w, n)]
                  ELSE [drv EXCEPT !.spin_barrier.word = w,
                                   !.pc[th] = @ + 1,
                                   !.synced[th] = @ + 1]
    /\ UNCHANGED <<icount, icalled, ibarrier, mvars, pvars, bvars, rvars>>

\* the poll of the spin loop that finds the phase changed
DSpinExit(th) ==
    /\ drv.wait[th] = "spin"
    /\ ~StillSpinning(drv.spin_barrier.word, drv.spin_barrier.n, drv.sv[th])
    /\ drv' = [drv EXCEPT !.wait[th] = "no", !.pc[th] = @ + 1, !.synced[th] = @ + 1]
    /\ UNCHANGED <<icount, icalled, ibarrier, mvars, pvars, bvars, rvars>>

\* the pthread barrier the instruction names
DWhich(th) == IF DInstr(th) = "pbarrier2" THEN "barrier2" ELSE "barrier"

\* pthread_barrier_wait on a barrier for 2: the first caller waits, the
\* second releases it and returns
DPthreadEnter(th) ==
    /\ DRunning(th) /\ DUsesPthread(th)
    /\ LET b == drv[DWhich(th)]
           counted == IF DInstr(th) = "sync" THEN 1 ELSE 0
       IN  drv' = IF b.waiting = 0
                  THEN [drv EXCEPT ![DWhich(th)].waiting = 1,
                                   !.wait[th] = DWhich(th),
                                   !.pgen[th] = b.gen]
                  ELSE [drv EXCEPT ![DWhich(th)].waiting = 0,
                                   ![DWhich(th)].gen = 1 - b.gen,
                                   !.pc[th] = @ + 1,
                                   !.synced[th] = @ + counted]
    /\ UNCHANGED <<icount, icalled, ibarrier, mvars, pvars, bvars, rvars>>

DPthreadExit(th) ==
    /\ drv.wait[th] \in {"barrier", "barrier2"}
    /\ drv[drv.wait[th]].gen # drv.pgen[th]
    /\ drv' = [drv EXCEPT !.wait[th] = "no", !.pc[th] = @ + 1,
                          !.synced[th] = @ + (IF drv.wait[th] = "barrier" THEN 1 ELSE 0)]
    /\ UNCHANGED <<icount, icalled, ibarrier, mvars, pvars, bvars, rvars>>

\* shared->arrival1 = tsc_cycles(); in main, shared->arrival2 = tsc_cycles();
\* in alt: the value is kept as the number of the measurement it belongs to
DArrive(th) ==
    /\ DRunning(th) /\ DInstr(th) = "arrive"
    /\ drv' = IF th = "main"
              THEN [DStep(th) EXCEPT !.arrival1 = @ + 1]
              ELSE [DStep(th) EXCEPT !.arrival2 = @ + 1]
    /\ UNCHANGED <<icount, icalled, ibarrier, mvars, pvars, bvars, rvars>>

\* main only: elapsed_cycles = |shared->arrival1 - shared->arrival2|; seen
\* keeps the arrival2 read each time
DReadArrival(th) ==
    /\ DRunning(th) /\ DInstr(th) = "readarrival"
    /\ drv' = [DStep(th) EXCEPT !.seen = Append(@, drv.arrival2)]
    /\ UNCHANGED <<icount, icalled, ibarrier, mvars, pvars, bvars, rvars>>

\* shared->timestamp1 = tsc_cycles(); and the same for timestamp2
DWrite(th) ==
    /\ DRunning(th) /\ DInstr(th) \in {"write1", "write2"}
    /\ drv' = IF DInstr(th) = "write1"
              THEN [DStep(th) EXCEPT !.timestamp1 = TRUE]
              ELSE [DStep(th) EXCEPT !.timestamp2 = TRUE]
    /\ UNCHANGED <<icount, icalled, ibarrier, mvars, pvars, bvars, rvars>>

\* while ((begin = shared->timestamp1) == 0); shared->timestamp1 = 0;
DPoll(th) ==
    /\ DRunning(th) /\ DInstr(th) \in {"poll1", "poll2"}
    /\ IF DInstr(th) = "poll1" THEN drv.timestamp1 ELSE drv.timestamp2
    /\ drv' = IF DInstr(th) = "poll1"
              THEN [DStep(th) EXCEPT !.timestamp1 = FALSE]
              ELSE [DStep(th) EXCEPT !.timestamp2 = FALSE]
    /\ UNCHANGED <<icount, icalled, ibarrier, mvars, pvars, bvars, rvars>>

\* pthread_mutex_init(&shared->mtx, NULL); shared->mtx_test_done = false;
DInitMtx(th) ==
    /\ DRunning(th) /\ DInstr(th) = "initmtx"
    /\ drv' = [DStep(th) EXCEPT !.mtx = "free", !.mtx_test_done = FALSE]
    /\ UNCHANGED <<icount, icalled, ibarrier, mvars, pvars, bvars, rvars>>

\* mutant: the lock is granted while the other thread holds it
DLock_unguarded(th) ==
    /\ DRunning(th) /\ DInstr(th) = "lock"
    /\ drv' = [DStep(th) EXCEPT !.mtx = th,
                                !.mtxlog = Append(@, [by |-> th, op |-> "lock"])]
    /\ UNCHANGED <<icount, icalled, ibarrier, mvars, pvars, bvars, rvars>>

\* pthread_mutex_lock(&shared->mtx);
DLock(th) ==
    /\ DRunning(th) /\ DInstr(th) = "lock"
    /\ drv.mtx = "free"
    /\ drv' = [DStep(th) EXCEPT !.mtx = th,
                                !.mtxlog = Append(@, [by |-> th, op |-> "lock"])]
    /\ UNCHANGED <<icount, icalled, ibarrier, mvars, pvars, bvars, rvars>>

\* main only: shared->mtx_test_done = prev_touch_cycles >= fini; the time
\* runs out in main's iteration number drv.last
DSetTest(th) ==
    /\ DRunning(th) /\ DInstr(th) = "settest"
    /\ drv' = [DStep(th) EXCEPT !.touches = @ + 1,
                                !.mtx_test_done = (drv.touches + 1 >= drv.last)]
    /\ UNCHANGED <<icount, icalled, ibarrier, mvars, pvars, bvars, rvars>>

\* pthread_mutex_unlock(&shared->mtx);
DUnlock(th) ==
    /\ DRunning(th) /\ DInstr(th) = "unlock"
    /\ drv' = [DStep(th) EXCEPT !.mtx = "free",
                                !.mtxlog = Append(@, [by |-> th, op |-> "unlock"])]
    /\ UNCHANGED <<icount, icalled, ibarrier, mvars, pvars, bvars, rvars>>

\* } while (!shared->mtx_test_done);
DLoop(th) ==
    /\ DRunning(th) /\ DInstr(th) = "loop"
    /\ drv' = IF drv.mtx_test_done THEN DStep(th)
              ELSE [drv EXCEPT !.pc[th] = MtxLoopStart(th)]
    /\ UNCHANGED <<icount, icalled, ibarrier, mvars, pvars, bvars, rvars>>

\* pthread_exit(NULL);
DExit(th) ==
    /\ DRunning(th) /\ DInstr(th) = "exit"
    /\ drv' = DStep(th)
    /\ UNCHANGED <<icount, icalled, ibarrier, mvars, pvars, bvars, rvars>>

\* pthread_join(alt_thread, NULL);
DJoin(th) ==
    /\ DRunning(th) /\ DInstr(th) = "join"
    /\ drv.pc["alt"] = Finished("alt")
    /\ drv' = DStep(th)
    /\ UNCHANGED <<icount, icalled, ibarrier, mvars, pvars, bvars, rvars>>

DThreadStep(th) ==
    \/ DSpinEnter(th)
    \/ DSpinExit(th)
    \/ DPthreadEnter(th)
    \/ DPthreadExit(th)
    \/ DArrive(th)
    \/ DReadArrival(th)
    \/ DWrite(th)
    \/ DPoll(th)
    \/ DInitMtx(th)
    \/ DLock(th)
    \/ DSetTest(th)
    \/ DUnlock(th)
    \/ DLoop(th)
    \/ DExit(th)
    \/ DJoin(th)

DriverInit ==
    /\ \E sc \in BOOLEAN : \E n \in 1..MaxIters : drv = DriverStart(sc, n)
    /\ StudyIdle
    /\ icount = One32
    /\ icalled = FALSE
    /\ ibarrier = NoBarrier
    /\ MergeIdle
    /\ BarrierIdle
    /\ RingIdle

DriverNext ==
    \/ \E th \in DThreads : DSpinEnter(th)
    \/ \E th \in DThreads : DSpinExit(th)
    \/ \E th \in DThreads : DPthreadEnter(th)
    \/ \E th \in DThreads : DPthreadExit(th)
    \/ \E th \in DThreads : DArrive(th)
    \/ \E th \in DThreads : DReadArrival(th)
    \/ \E th \in DThreads : DWrite(th)
    \/ \E th \in DThreads : DPoll(th)
    \/ \E th \in DThreads : DInitMtx(th)
    \/ \E th \in DThreads : DLock(th)
    \/ \E th \in DThreads : DSetTest(th)
    \/ \E th \in DThreads : DUnlock(th)
    \/ \E th \in DThreads : DLoop(th)
    \/ \E th \in DThreads : DExit(th)
    \/ \E th \in DThreads : DJoin(th)

\* the scheduler is fair: a thread that can take a step eventually does
DriverSpec ==
    DriverInit /\ [][DriverNext]_vars /\ \A th \in DThreads : WF_vars(DThreadStep(th))

(* --------------------------- parse_cpu_list ---------------------------- *)
\* The argument is a sequence of characters.  The lists tried are the texts
\* of 1..MaxElems elements, each a CPU number or a range a-b with a <= b,
\* over numbers of one and two digits, one of them (16) not below 8*setsize.
CpuSetSize == 2

CpuSamples == {0, 1, 2, 10, 15, 16}

CpuElements ==
    [lo : CpuSamples, hi : CpuSamples] \cap {e \in [lo : 0..16, hi : 0..16] : e.lo <= e.hi}

DigitChars == << "0", "1", "2", "3", "4", "5", "6", "7", "8", "9" >>

IsDigit(c) == \E d \in 1..10 : DigitChars[d] = c

DigitValue(c) == (CHOOSE d \in 1..10 : DigitChars[d] = c) - 1

\* the decimal text of a number below 100
NumberText(k) ==
    IF k < 10 THEN << DigitChars[k + 1] >>
    ELSE << DigitChars[(k \div 10) + 1], DigitChars[(k % 10) + 1] >>

ElementText(e) ==
    IF e.lo = e.hi THEN NumberText(e.lo) ELSE NumberText(e.lo) \o << "-" >> \o NumberText(e.hi)

RECURSIVE ListText(_)
ListText(es) ==
    IF Len(es) = 0 THEN << >>
    ELSE IF Len(es) = 1 THEN ElementText(es[1])
    ELSE ElementText(es[1]) \o << "," >> \o ListText(Tail(es))

\* strtoul(s, &endp, 10) on a text that starts with neither blank nor sign:
\* the value of the longest prefix of digits and the text after it; with no
\* digit the value is 0 and endp is s
RECURSIVE strtoul_from(_, _)
strtoul_from(acc, s) ==
    IF Len(s) > 0 /\ IsDigit(Head(s))
    THEN strtoul_from(acc * 10 + DigitValue(Head(s)), Tail(s))
    ELSE [num |-> acc, endp |-> s]

strtoul(s) == strtoul_from(0, s)

\* *p of a C string: "\0" at its end
CharAt(s) == IF Len(s) = 0 THEN "\\0" ELSE Head(s)

\* CPU_SET_S(cpu, setsize, set) leaves the set alone for cpu >= 8*setsize
CPU_SET_S(cpu, set) == IF cpu < 8 * CpuSetSize THEN set \cup {cpu} ELSE set

\* for (int i = num; i < num2; i++) CPU_SET_S(num, setsize, set);
RangeSet(num, num2, set) == IF num < num2 THEN CPU_SET_S(num, set) ELSE set

\* one iteration of the for loop of parse_cpu_list (lines 18-60) on the text
\* clist with the set so far: the text left, the set, and the value returned
\* if the iteration returns
parse_element(clist, set) ==
    LET c == CharAt(clist)
        n1 == strtoul(clist)
        fail == [clist |-> clist, set |-> set, ret |-> -1]
    IN  IF c = " " THEN fail
        ELSE IF n1.endp # clist /\ IsDigit(c)
        THEN IF CharAt(n1.endp) = "-"
             THEN LET endp == Tail(n1.endp)
                      c2 == CharAt(endp)
                      n2 == strtoul(endp)
                  IN  IF n2.endp # endp /\ IsDigit(c2)
                      THEN IF CharAt(n2.endp) \in {",", "\\0"}
                           THEN LET rest == IF CharAt(n2.endp) = "," THEN Tail(n2.endp)
                                            ELSE n2.endp
                                IN  IF n2.num >= CpuSetSize * 8
                                    THEN [clist |-> rest, set |-> set, ret |-> -1]
                                    ELSE [clist |-> rest,
                                          set |-> RangeSet(n1.num, n2.num, set),
                                          ret |-> 0]
                           ELSE fail
                      ELSE fail
             ELSE IF CharAt(n1.endp) \in {",", "\\0"}
             THEN LET rest == IF CharAt(n1.endp) = "," THEN Tail(n1.endp) ELSE n1.endp
                  IN  IF n1.num >= CpuSetSize * 8
                      THEN [clist |-> rest, set |-> set, ret |-> -1]
                      ELSE [clist |-> rest, set |-> CPU_SET_S(n1.num, set), ret |-> 0]
             ELSE fail
        ELSE fail

\* the call of parse_cpu_list on the text of the elements es, after
\* CPU_ZERO_S; the set handed in is arbitrary
CpuListCall(es) ==
    cpl = [pc |-> "loop", elems |-> es, clist |-> ListText(es), set |-> {}, ret |-> 0]

\* one iteration of the loop: the next element is taken or -1 is returned
CpuListElement ==
    /\ cpl.pc = "loop"
    /\ Len(cpl.clist) > 0
    /\ LET r == parse_element(cpl.clist, cpl.set)
       IN  cpl' = [cpl EXCEPT !.clist = r.clist, !.set = r.set, !.ret = r.ret,
                              !.pc = IF r.ret = -1 THEN "done" ELSE "loop"]
    /\ UNCHANGED <<tm, icount, icalled, ibarrier, mvars, dvars, bvars, rvars>>

\* the loop ends at the end of the text: return 0
CpuListReturn ==
    /\ cpl.pc = "loop"
    /\ Len(cpl.clist) = 0
    /\ cpl' = [cpl EXCEPT !.pc = "done", !.ret = 0]
    /\ UNCHANGED <<tm, icount, icalled, ibarrier, mvars, dvars, bvars, rvars>>

RECURSIVE ElementLists(_)
ElementLists(k) ==
    IF k = 0 THEN {<< >>}
    ELSE ElementLists(k - 1) \cup
         {Append(es, e) : es \in {x \in ElementLists(k - 1) : Len(x) = k - 1}, e \in CpuElements}

CpuListInit ==
    /\ \E es \in ElementLists(MaxElems) \ {<< >>} : CpuListCall(es)
    /\ TimeIdle
    /\ icount = One32
    /\ icalled = FALSE
    /\ ibarrier = NoBarrier
    /\ MergeIdle
    /\ DriverIdle
    /\ BarrierIdle
    /\ RingIdle

CpuListNext ==
    \/ CpuListElement
    \/ CpuListReturn

CpuListSpec == CpuListInit /\ [][CpuListNext]_vars

(* ------------------------ the timing macros ---------------------------- *)
Lt64(a, b) == Lt32(a.hi, b.hi) \/ (a.hi = b.hi /\ Lt32(a.lo, b.lo))

\* a - b modulo 2^64
Sub64(a, b) ==
    LET borrow == IF Lt32(a.lo, b.lo) THEN One32 ELSE Zero32
    IN  U64(Sub32(Sub32(a.hi, b.hi), borrow), Sub32(a.lo, b.lo))

\* min(x, y) of shorthand.h
min(x, y) == IF Lt64(y, x) THEN y ELSE x

\* elapsed_cycles = fini - begin; elapsed_cycles -= min(elapsed_cycles, overhead);
TIME_INSTRUCTION(begin, fini, overhead) ==
    LET elapsed_cycles == Sub64(fini, begin)
    IN  Sub64(elapsed_cycles, min(elapsed_cycles, overhead))

\* elapsed = (fini - begin); elapsed -= min(elapsed, overhead);
TIME_CODE_20(begin, fini, overhead) ==
    LET elapsed == Sub64(fini, begin)
    IN  Sub64(elapsed, min(elapsed, overhead))

\* elapsed = fini - begin - overhead;
TIME_CODE(begin, fini, overhead) == Sub64(Sub64(fini, begin), overhead)

\* cycle counts tried: small ones and ones around 2^32
TimeSamples ==
    {U64(Zero32, U32(0)), U64(Zero32, U32(1)), U64(Zero32, U32(MaxCycles)),
     U64(Zero32, Sub32(Zero32, One32)), U64(One32, Zero32), U64(One32, U32(MaxCycles))}

\* a measurement: the two readings of the cycle counter, the second not
\* before the first, and the mean overhead measured earlier
TimeStart(m, b, f, o) ==
    tm = [pc |-> "timing", macro |-> m, begin |-> b, fini |-> f, overhead |-> o,
          elapsed |-> Zero64]

TimeInstruction ==
    /\ tm.pc = "timing" /\ tm.macro = "TIME_INSTRUCTION"
    /\ tm' = [tm EXCEPT !.pc = "reported",
                        !.elapsed = TIME_INSTRUCTION(tm.begin, tm.fini, tm.overhead)]
    /\ UNCHANGED <<cpl, icount, icalled, ibarrier, mvars, dvars, bvars, rvars>>

TimeCode20 ==
    /\ tm.pc = "timing" /\ tm.macro = "TIME_CODE_20"
    /\ tm' = [tm EXCEPT !.pc = "reported",
                        !.elapsed = TIME_CODE_20(tm.begin, tm.fini, tm.overhead)]
    /\ UNCHANGED <<cpl, icount, icalled, ibarrier, mvars, dvars, bvars, rvars>>

TimeCode ==
    /\ tm.pc = "timing" /\ tm.macro = "TIME_CODE"
    /\ tm' = [tm EXCEPT !.pc = "reported",
                        !.elapsed = TIME_CODE(tm.begin, tm.fini, tm.overhead)]
    /\ UNCHANGED <<cpl, icount, icalled, ibarrier, mvars, dvars, bvars, rvars>>

TimeInit ==
    /\ \E m \in {"TIME_INSTRUCTION", "TIME_CODE_20", "TIME_CODE"} :
       \E b \in TimeSamples : \E f \in TimeSamples : \E o \in TimeSamples :
          /\ ~Lt64(f, b)
          /\ TimeStart(m, b, f, o)
    /\ CpuListIdle
    /\ icount = One32
    /\ icalled = FALSE
    /\ ibarrier = NoBarrier
    /\ MergeIdle
    /\ DriverIdle
    /\ BarrierIdle
    /\ RingIdle

TimeNext ==
    \/ TimeInstruction
    \/ TimeCode20
    \/ TimeCode

TimeSpec == TimeInit /\ [][TimeNext]_vars

(* ----------------------- claims: spin barrier -------------------------- *)

\* C1: with exactly count threads, no barrier_wait call of round K returns
\* before all count calls of round K have performed their increment.
C1_NoEarlyReturn ==
    \A t \in Participants : \A u \in Participants : done[t] <= arrived[u]

\* a thread has returned from round 1 while another, released but not yet
\* returned, is still inside its round 1 call
C1_Witness ==
    /\ count = 3
    /\ \E t \in Participants : \E u \in Participants :
          done[t] = 1 /\ pc[u] = "spin" /\ done[u] = 0

\* C2: under weak fairness every barrier_wait call returns once all count
\* calls of its round have been made.
C2_EveryCallReturns ==
    \A t \in Threads : \A K \in 1..MaxRounds :
        (t <= count /\ \A u \in Participants : arrived[u] >= K) ~> (done[t] >= K)

\* every thread has returned from every round, with the correction in use
C2_Witness ==
    /\ count = 3
    /\ \A t \in Participants : done[t] = MaxRounds

\* C3 as stated: no round K+1 increment before every thread has been released
\* from round K, and threads inside barrier_wait are all in the same round.
C3_NoOverlapAsStated ==
    /\ \A t \in Participants : \A u \in Participants : arrived[t] <= done[u] + 1
    /\ \A t \in Participants : \A u \in Participants :
          (pc[t] # "idle" /\ pc[u] # "idle") => arrived[t] = arrived[u]

\* C3 amended: a round K+1 increment happens only after all count increments
\* of round K (round K is complete), possibly before other threads have
\* observed the release; threads are never more than one round apart, and a
\* round K+2 increment happens only after every thread was released from round K.
C3_AdjacentRounds ==
    \A t \in Participants : \A u \in Participants :
        /\ arrived[t] <= arrived[u] + 1
        /\ arrived[t] <= done[u] + 2

\* a released thread has made its round 2 increment while another thread has
\* not yet returned from round 1
C3_Witness ==
    \E t \in Participants : \E u \in Participants :
        arrived[t] = 2 /\ done[u] = 0 /\ pc[u] = "spin"

\* K * n modulo 2^32
RECURSIVE Times32(_, _)
Times32(K, n) == IF K = 0 THEN Zero32 ELSE Add32(n, Times32(K - 1, n))

Quiescent == \A t \in Participants : pc[t] = "idle"

\* C4: after K completed rounds with no thread inside barrier_wait the word
\* is reset + K*n modulo 2^32, n and reset are as initialised, and the low
\* bits again leave exactly count increments to the next phase flip.
C4_SelfReset ==
    Quiescent =>
        LET K == done[1] IN
        /\ \A t \in Participants : done[t] = K
        /\ barrier.word = Add32(barrier.reset, Times32(K, barrier.n))
        /\ Add32(And32(barrier.word, Sub32(barrier.n, One32)), U32(count)) = barrier.n
        /\ barrier.n = barrier_init(U32(count)).n
        /\ barrier.reset = barrier_init(U32(count)).reset

\* a round with the correction has completed and every thread is outside
C4_Witness ==
    /\ Quiescent
    /\ barrier.reset # Zero32
    /\ \A t \in Participants : done[t] = 1

IsPow2_32(w) == \E k \in 0..31 : w = Pow2_32(k)

\* C5: for 1 <= count <= 2^31, barrier_init sets n to the least power of two
\* >= count, and reset and word to n - count.
C5_InitLeastPow2 ==
    (icalled /\ Le32(One32, icount) /\ Le32(icount, TwoTo31)) =>
        /\ IsPow2_32(ibarrier.n)
        /\ Le32(icount, ibarrier.n)
        /\ Lt32(Shr32(ibarrier.n, 1), icount)
        /\ Add32(ibarrier.word, icount) = ibarrier.n
        /\ ibarrier.reset = ibarrier.word

\* barrier_init has been applied to 2^30 + 1, which rounds up to 2^31
C5_Witness ==
    /\ icalled
    /\ icount = Add32(Pow2_32(30), One32)
    /\ ibarrier.n = TwoTo31

\* the threads that make a call in round K: their K-th call
Callers(K) == {t \in Threads : quota[t] >= K}

\* some round gets a number of calls other than count
Miscounted == \E K \in 1..MaxRounds : Cardinality(Callers(K)) \notin {0, count}

\* no thread has a step left: each has made and returned from all its calls,
\* or spins on a word that no longer changes
Settled ==
    \A t \in Threads :
        \/ pc[t] = "idle" /\ arrived[t] = quota[t]
        \/ pc[t] = "spin" /\ StillSpinning(barrier.word, barrier.n, v[t])

\* C6: when some round gets a number of barrier_wait calls other than count,
\* the run ends with a call that never returns (deadlock) or has counted
\* some call into a round other than its caller's own (round skew); in
\* particular a round that fewer than count threads call in, the rounds
\* before it complete, returns from none of its calls: for count >= 2, when
\* fewer than count threads ever call, no call returns.
C6_MiscountDeadlocksOrSkews ==
    /\ (Miscounted /\ Settled) => (hist.skew \/ \E t \in Threads : pc[t] # "idle")
    /\ \A K \in 1..MaxRounds :
          (/\ \A J \in 1..(K - 1) : Cardinality(Callers(J)) = count
           /\ Cardinality(Callers(K)) < count)
          => \A t \in Threads : done[t] < K

\* a barrier for two threads was called by three in round 1 and by one in
\* round 2: every call has returned, the third thread's first call together
\* with the first thread's second
C6_Witness ==
    /\ count = 2
    /\ quota = [t \in Threads |-> IF t = 1 THEN 2 ELSE 1]
    /\ \A t \in Threads : pc[t] = "idle" /\ done[t] = quota[t]
    /\ hist.skew

(* ----------------------- claims: pstamp ring --------------------------- *)

\* C7: a ring of capacity C that is never extended has overflow count 0
\* after up to C pstamp_log calls, and each further call adds exactly 1.
C7_OverflowCounted ==
    (rings[1].size >= 1 /\ rings[1].next_ring = NULL) =>
        pstamp_log_overflows(rings[1]) =
            (IF Len(written) > rings[1].size THEN Len(written) - rings[1].size ELSE 0)

\* C8: a fresh ring of capacity C without successor, after k <= C calls and
\* the writer stopped: enumeration visits exactly the k recorded entries, in
\* the order they were written.
C8_EnumerateRecorded ==
    (stopped /\ 1 \in enumerated /\ rings[1].next_ring = NULL
        /\ rings[1].size >= 1 /\ Len(written) <= rings[1].size)
    => visited[1] = written

\* C9: a ring of capacity C without successor, after C + 1 calls and the
\* writer stopped: enumeration visits exactly the C most recent entries,
\* oldest first, and not the first-recorded one.
C9_EnumerateAfterWrap ==
    (stopped /\ 1 \in enumerated /\ rings[1].next_ring = NULL
        /\ rings[1].size >= 1 /\ Len(written) = rings[1].size + 1)
    => visited[1] = Tail(written)

\* ring 2 was attached to ring 1 (pstamp_log_extend returned true) before
\* ring 1 had filled
AttachedBeforeFull ==
    \E i \in 1..Len(extCalls) :
        /\ extCalls[i].ring = 1
        /\ extCalls[i].offered = 2
        /\ extCalls[i].ok
        /\ extCalls[i].early

\* C10: with ring 2 attached before ring 1 fills, after C + k calls
\* (1 <= k <= capacity of ring 2) both overflow counts are 0 and enumerating
\* ring 1 and then ring 2 yields all C + k entries in write order.
C10_ExtendedKeepsAll ==
    (stopped /\ {1, 2} \subseteq enumerated /\ AttachedBeforeFull
        /\ rings[1].next_ring = 2 /\ rings[1].size >= 1
        /\ Len(written) > rings[1].size
        /\ Len(written) <= rings[1].size + rings[2].size)
    => /\ pstamp_log_overflows(rings[1]) = 0
       /\ pstamp_log_overflows(rings[2]) = 0
       /\ visited[1] \o visited[2] = written

\* C11: a pstamp_log call on a ring that has received as many entries as it
\* has slots and has a successor linked sets that ring's inactive flag,
\* stores the entry in the successor and returns the successor; every other
\* call returns the ring it was called on.
C11_MovesWhenFull ==
    [][Len(written') = Len(written) + 1 =>
        LET h == where'[Len(where')].on
        IN  IF Stored(h) >= rings[h].size /\ rings[h].next_ring # NULL
            THEN /\ rings'[h].inactive
                 /\ handle' = rings[h].next_ring
                 /\ where'[Len(where')].ring = rings[h].next_ring
            ELSE handle' = h]_vars

\* the calls of pstamp_log_extend on ring r, by their place in extCalls
CallsOn(r) == {i \in 1..Len(extCalls) : extCalls[i].ring = r}

\* call j was made after call i had returned
After(i, j) == i < j /\ extCalls[j].began >= i

\* C12: of two pstamp_log_extend calls made one after the other on the same
\* active ring without successor, offering distinct candidates s1 then s2,
\* the first returns true and the second false; next_ring designates s1
\* afterwards, and no entry written through that ring goes to s2.
C12_SecondExtendRefused ==
    \A r \in Rings : \A i \in CallsOn(r) : \A j \in CallsOn(r) :
        (/\ \A k \in CallsOn(r) : i <= k
         /\ ~extCalls[i].wasInactive
         /\ After(i, j)
         /\ extCalls[i].offered # extCalls[j].offered)
        => /\ extCalls[i].ok
           /\ ~extCalls[j].ok
           /\ rings[r].next_ring = extCalls[i].offered
           /\ \A k \in 1..Len(where) :
                 (where[k].on = r /\ where[k].ring # r)
                 => where[k].ring = extCalls[i].offered

\* ring 1, which has slots, was offered ring 2 and then ring 3 before it had
\* filled, and the writer has since recorded more entries through ring 1
\* than ring 1 has slots
C12_Witness ==
    /\ Len(extCalls) = 2
    /\ extCalls[1].ring = 1 /\ extCalls[1].offered = 2 /\ extCalls[1].ok
    /\ extCalls[2].ring = 1 /\ extCalls[2].offered = 3 /\ ~extCalls[2].ok
    /\ extCalls[2].early
    /\ rings[1].size >= 1
    /\ Cardinality({k \in 1..Len(where) : where[k].on = 1}) > rings[1].size

\* C13: a pstamp_log_extend call on a ring whose inactive flag is set returns
\* false and leaves every field of that ring and of the offered ring
\* unchanged.
C13_InactiveNotExtended ==
    [][(/\ Len(extCalls') = Len(extCalls) + 1
        /\ rings[extCalls'[Len(extCalls')].ring].inactive)
       => /\ ~extCalls'[Len(extCalls')].ok
          /\ rings'[extCalls'[Len(extCalls')].ring] = rings[extCalls'[Len(extCalls')].ring]
          /\ rings'[extCalls'[Len(extCalls')].offered]
                = rings[extCalls'[Len(extCalls')].offered]]_vars

\* a call on a ring whose inactive flag was set and whose successor pointer
\* was NULL has returned false
C13_Witness ==
    \E i \in 1..Len(extCalls) :
        /\ extCalls[i].wasInactive
        /\ ~extCalls[i].ok
        /\ rings[extCalls[i].ring].inactive
        /\ rings[extCalls[i].ring].next_ring = NULL
        /\ extCalls[i].offered # extCalls[i].ring

\* calls i and j of pstamp_log_extend overlapped in time
Overlapping(i, j) == i # j /\ ~After(i, j) /\ ~After(j, i)

\* C14: of two pstamp_log_extend calls that overlap on the same active ring
\* without successor, offering different candidates, at most one returns
\* true, and the link the winner set is never overwritten.
C14_AttachAtomic ==
    \A r \in Rings : \A i \in CallsOn(r) : \A j \in CallsOn(r) :
        (/\ Overlapping(i, j)
         /\ ~extCalls[i].wasInactive /\ ~extCalls[j].wasInactive
         /\ \A k \in CallsOn(r) : k = i \/ k = j \/ After(i, k) \/ After(j, k)
         /\ extCalls[i].offered # extCalls[j].offered)
        => /\ ~(extCalls[i].ok /\ extCalls[j].ok)
           /\ extCalls[i].ok => rings[r].next_ring = extCalls[i].offered

\* the ring reached from r by following k next_ring links (a pointer to no
\* ring once the chain has ended)
RECURSIVE Follow(_, _)
Follow(r, k) ==
    IF k = 0 \/ r \notin Rings THEN r ELSE Follow(rings[r].next_ring, k - 1)

\* C15: whatever rings are passed to pstamp_log_extend, and whatever
\* pstamp_log calls are made, the next_ring links never form a cycle: no
\* ring is reached from itself.
C15_ChainAcyclic ==
    \A r \in Rings : \A k \in 1..Cardinality(Rings) : Follow(r, k) # r

\* no pstamp_log call made after the k-th has stored at the slot the k-th
\* stored at
InPlace(k) ==
    \A j \in (k + 1)..Len(where) :
        where[j].ring # where[k].ring \/ where[j].slot # where[k].slot

Fresh == Len(written) = 0 /\ Len(extCalls) = 0 /\ InFlight = {}

\* C17: a ring of capacity below 1 is rejected, so no such ring exists; a
\* ring created with capacity 1 or more is empty: it retains no entry, its
\* overflow count is 0, it is not inactive and it has no successor.
C17_CapacityChecked ==
    \A r \in Rings :
        /\ rings[r].size >= 1
        /\ Fresh => /\ pstamp_log_enumerate(rings[r]) = <<>>
                    /\ pstamp_log_overflows(rings[r]) = 0
                    /\ ~rings[r].inactive
                    /\ ~pstamp_log_extended(rings[r])

\* C18: pstamp_log never blocks the writer: whatever pstamp_log_extend and
\* pstamp_log_enumerate calls the other threads make, and wherever they stop
\* inside them, a call that has come to the store of its entry returns, and
\* the writer gets through all the calls it set out to make, by steps of its
\* own alone.
C18_LogNeverBlocks ==
    /\ wr ~> ~wr
    /\ <>(Len(written) = MaxLogs /\ ~wr)

\* the writer has made all its calls, the last of them while an enumeration
\* was inside its loop and a pstamp_log_extend call was between its test and
\* its store, both still there
C18_Witness ==
    /\ Len(written) = MaxLogs
    /\ ~wr
    /\ enum.pc = "loop"
    /\ ~enum.clean
    /\ \E e \in Extenders : ext[e].pc = "set"

RECURSIVE TakenBefore(_, _)
TakenBefore(i, k) ==
    IF k <= 1 THEN 0
    ELSE TakenBefore(i, k - 1) + (IF mout[k - 1].src = i THEN 1 ELSE 0)

RECURSIVE TotalLen(_)
TotalLen(S) ==
    IF S = {} THEN 0
    ELSE LET i == CHOOSE x \in S : TRUE IN Len(minputs[i]) + TotalLen(S \ {i})

\* C22: a merge over several completed rings emits each retained entry of
\* each input exactly once, in non-decreasing time stamp order, each time the
\* head with the smallest time stamp, the lowest input index among equal
\* ones, and never modifies its inputs.
C22_MergeOrdered ==
    /\ [](/\ \A k \in 1..Len(mout) :
               /\ mout[k].pos = TakenBefore(mout[k].src, k) + 1
               /\ mout[k].time = minputs[mout[k].src][mout[k].pos]
               /\ \A j \in MergeInputs :
                     TakenBefore(j, k) < Len(minputs[j])
                     => \/ mout[k].time < minputs[j][TakenBefore(j, k) + 1]
                        \/ /\ mout[k].time = minputs[j][TakenBefore(j, k) + 1]
                           /\ mout[k].src <= j
          /\ \A k \in 1..(Len(mout) - 1) : mout[k].time <= mout[k + 1].time
          /\ \A a \in 1..Len(mout) : \A b \in 1..Len(mout) :
               (a # b) => (mout[a].src # mout[b].src \/ mout[a].pos # mout[b].pos)
          /\ MergeHeads = {} => Len(mout) = TotalLen(MergeInputs))
    /\ [][minputs' = minputs]_vars

\* the merge of {1,3,5} and {2,4,6} has emitted 1,2,3,4,5,6
C22_Witness ==
    /\ minputs = [i \in MergeInputs |-> IF i = 1 THEN <<1, 3, 5>> ELSE <<2, 4, 6>>]
    /\ MergeHeads = {}
    /\ [k \in 1..Len(mout) |-> mout[k].time] = <<1, 2, 3, 4, 5, 6>>


\* C23: in every round exactly one call takes the releaser branch and the
\* other count-1 calls take the follower branch; the releaser adds the
\* correction exactly once when reset is nonzero, never when it is zero, and
\* never spins, also when calls of the next round have already incremented.
C23_OneReleaserPerRound ==
    /\ \A K \in 1..MaxRounds :
          /\ hist.rel[K] <= 1
          /\ hist.fol[K] <= count - 1
          /\ hist.adds[K] <= hist.rel[K]
          /\ barrier.reset = Zero32 => hist.adds[K] = 0
          /\ (\A t \in Participants : done[t] >= K) =>
                /\ hist.rel[K] = 1
                /\ hist.fol[K] = count - 1
                /\ hist.adds[K] = IF barrier.reset = Zero32 THEN 0 ELSE 1
    /\ \A t \in Participants :
          /\ pc[t] = "spin" => hist.branch[t] = "follower"
          /\ pc[t] = "add" => hist.branch[t] = "releaser"
          /\ hist.branch[t] = "releaser" => pc[t] \in {"add", "idle"}

\* the releaser of round 1 is about to add the correction while a follower of
\* round 1, already released, has incremented for round 2 and spins there
C23_Witness ==
    /\ count = 3
    /\ \E t \in Participants : \E u \in Participants :
          /\ pc[t] = "add" /\ hist.round[t] = 1
          /\ pc[u] = "spin" /\ hist.round[u] = 2
    /\ hist.rel[1] = 1 /\ hist.fol[1] = 2 /\ hist.adds[1] = 0 /\ hist.fol[2] >= 1


\* C24: when count is a power of two, 1 included, reset is 0, no barrier_wait
\* call performs the correction add, no call returns before all count calls
\* of its round were made, every call of a complete round returns, and with
\* count = 1 no call ever spins.
C24_PowerOfTwoCount ==
    /\ [](IsPow2_32(U32(count)) =>
            /\ barrier.reset = Zero32
            /\ \A t \in Participants : pc[t] # "add"
            /\ \A K \in 1..MaxRounds : hist.adds[K] = 0
            /\ \A t \in Participants : \A u \in Participants : done[t] <= arrived[u]
            /\ count = 1 => \A t \in Participants :
                               pc[t] # "spin" /\ hist.branch[t] # "follower")
    /\ \A t \in Threads : \A K \in 1..MaxRounds :
          (/\ IsPow2_32(U32(count))
           /\ t <= count
           /\ \A u \in Participants : arrived[u] >= K) ~> (done[t] >= K)

\* two threads have been through every round without any correction
C24_Witness ==
    /\ count = 2
    /\ barrier.reset = Zero32
    /\ \A t \in Participants : done[t] = MaxRounds
    /\ \A K \in 1..MaxRounds : hist.rel[K] = 1 /\ hist.fol[K] = 1 /\ hist.adds[K] = 0


\* the phase bit word & n
Phase == And32(barrier.word, barrier.n)

\* the phase a follower inside barrier_wait captured with its increment
Captured(t) == And32(v[t], barrier.n)

\* a follower between its increment and its return
FollowerInside(t) ==
    \/ pc[t] = "spin"
    \/ pc[t] = "test" /\ IsFollower(v[t], barrier.n)

\* C25: while a follower that captured phase p is inside barrier_wait, the
\* phase bit, once it has changed away from p, does not return to p before
\* the follower has returned (so it changes away from p at most once).
C25_NoMissedRelease ==
    [][\A t \in Participants :
          (/\ FollowerInside(t)
           /\ Phase # Captured(t)
           /\ pc'[t] # "idle")
          => And32(barrier'.word, barrier'.n) # And32(v'[t], barrier'.n)]_vars

\* a released follower of round 1 has not polled yet while the others have
\* already incremented for round 2 and the correction has been added
C25_Witness ==
    /\ count = 3
    /\ \E t \in Participants :
          /\ pc[t] = "spin" /\ hist.round[t] = 1 /\ Phase # Captured(t)
          /\ \A u \in Participants \ {t} : hist.round[u] = 2
          /\ hist.adds[1] = 1


\* C26: with exactly count threads calling barrier_wait repeatedly, the
\* numbers of calls any two of them have completed never differ by more
\* than one.
C26_CompletedWithinOne ==
    \A t \in Participants : \A u \in Participants : done[t] - done[u] <= 1

\* one thread has completed round 2 while another, released from round 2, has
\* completed only round 1
C26_Witness ==
    /\ count = 3
    /\ \E t \in Participants : \E u \in Participants :
          done[t] = 2 /\ done[u] = 1 /\ pc[u] = "spin"


(* ----------------------- the counter wraps ----------------------------- *)
\* The word k rounds before it wraps: with no thread inside barrier_wait the
\* word is reset + K*n modulo 2^32 after K rounds, so after 2^32/n - k rounds
\* it is reset - k*n modulo 2^32.  The rounds and calls are counted from
\* that state on.
WrapStart(c, k) ==
    /\ count = c
    /\ quota = FullQuota(c)
    /\ barrier = [barrier_init(U32(c)) EXCEPT
                     !.word = Sub32(@, Times32(k, barrier_init(U32(c)).n))]
    /\ pc = [t \in Threads |-> "idle"]
    /\ v = [t \in Threads |-> Zero32]
    /\ arrived = [t \in Threads |-> 0]
    /\ done = [t \in Threads |-> 0]
    /\ hist = HistStart

WrapInit ==
    /\ \E c \in 1..MaxCount : \E k \in 1..MaxRounds : WrapStart(c, k)
    /\ InitIdle
    /\ RingIdle

WrapSpec == WrapInit /\ [][Next]_vars /\ \A t \in Threads : WF_vars(Inside(t))

\* the word is in the last n values below 2^32
BeforeWrap == Le32(Sub32(Zero32, barrier.n), barrier.word)

\* C27: in the rounds during which the 32-bit word wraps past its maximum to
\* 0, no call returns before all count calls of its round were made, each
\* round has one releaser and count-1 followers, and every call of a complete
\* round returns.
C27_WrapKeepsRendezvous ==
    /\ [](/\ \A t \in Participants : \A u \in Participants : done[t] <= arrived[u]
          /\ \A K \in 1..MaxRounds :
                /\ hist.rel[K] <= 1
                /\ (\A t \in Participants : done[t] >= K) =>
                      hist.rel[K] = 1 /\ hist.fol[K] = count - 1)
    /\ \A t \in Threads : \A K \in 1..MaxRounds :
          (t <= count /\ \A u \in Participants : arrived[u] >= K) ~> (done[t] >= K)

\* three threads have been through the round whose last increment took the
\* word from 2^32 - 1 to 0, and every call of every round has returned
C27_Witness ==
    /\ count = 3
    /\ ~BeforeWrap
    /\ Lt32(barrier.word, U32(Half))
    /\ \A t \in Participants : done[t] = MaxRounds
    /\ \A t \in Participants : done[t] = MaxRounds


C29_FirstVariantAnyCount ==
    /\ [](\A t \in Participants : \A u \in Participants : done[t] <= arrived[u])
    /\ \A t \in Threads : \A K \in 1..MaxRounds :
          (t <= count /\ \A u \in Participants : arrived[u] >= K) ~> (done[t] >= K)


\* C30: under fair scheduling and for any number of ping/pong iterations,
\* main and alt make matching sequences of rendezvous: alt does not exit
\* while main is still inside mtx_test, and eventually both have returned
\* from mtx_test after the same number of sync_barrier calls, alt has exited
\* and main's pthread_join has returned.
C30_DriverCompletes ==
    /\ [](drv.pc["alt"] = Finished("alt") => drv.pc["main"] >= AfterMtxTest("main"))
    /\ <>(/\ drv.pc["main"] = Finished("main")
          /\ drv.pc["alt"] = Finished("alt")
          /\ drv.synced["main"] = drv.synced["alt"])


(* -------------------------- claims: driver ----------------------------- *)
\* C31: in mtx_test the threads take the mutex in strict alternation, main
\* first: the mutex operations are lock and unlock by main, lock and unlock
\* by alt, lock and unlock by main, and so on, so that between two
\* acquisitions by one thread the other acquires and releases exactly once.
C31_MutexAlternates ==
    \A i \in 1..Len(drv.mtxlog) :
        LET e == drv.mtxlog[i] IN
        /\ e.op = (IF i % 2 = 1 THEN "lock" ELSE "unlock")
        /\ e.by = (IF ((i - 1) \div 2) % 2 = 0 THEN "main" ELSE "alt")

\* main has taken the mutex a second time after alt took and released it
C31_Witness ==
    /\ Len(drv.mtxlog) >= 5
    /\ drv.mtxlog[5] = [by |-> "main", op |-> "lock"]
    /\ drv.mtxlog[3] = [by |-> "alt", op |-> "lock"]
    /\ drv.mtxlog[4] = [by |-> "alt", op |-> "unlock"]


\* C32: main's read of arrival2 for a measurement comes after alt's write
\* for that measurement and before alt's write for the next: the k-th read
\* sees the k-th value, while main is about to read alt is not about to
\* write, and alt never reads the arrival times.
C32_ArrivalReadsOrdered ==
    /\ \A i \in 1..Len(drv.seen) : drv.seen[i] = i
    /\ DInstr("main") = "readarrival" =>
          /\ drv.arrival2 = Len(drv.seen) + 1
          /\ DInstr("alt") # "arrive"
    /\ DInstr("alt") = "arrive" => Len(drv.seen) = drv.arrival2
    /\ DInstr("alt") # "readarrival"

\* main has read both measurements, the second after the spin barrier
C32_Witness ==
    /\ drv.seen = << 1, 2 >>
    /\ drv.arrival1 = 2
    /\ ~drv.same_core


(* ----------------------- claims: parse_cpu_list ------------------------ *)
\* the CPUs a list of elements names
NamedCpus(es) == UNION {es[i].lo .. es[i].hi : i \in 1..Len(es)}

\* C33: for a well-formed list of CPU numbers and ranges a-b with a <= b,
\* all below 8*setsize, parse_cpu_list returns 0 and the set holds exactly
\* the CPUs named, every CPU of each range included.
C33_ParsesNamedCpus ==
    (/\ cpl.pc = "done"
     /\ \A i \in 1..Len(cpl.elems) : cpl.elems[i].hi < 8 * CpuSetSize)
    => (cpl.ret = 0 /\ cpl.set = NamedCpus(cpl.elems))


(* ----------------------- claims: timing macros ------------------------- *)
\* C34: each of TIME_INSTRUCTION, TIME_CODE_20 and TIME_CODE reports
\* max(0, (fini - begin) - overhead): the overhead is subtracted without
\* unsigned wraparound, whatever fini - begin and overhead are.
C34_OverheadSubtractedClamped ==
    tm.pc = "reported" =>
        LET d == Sub64(tm.fini, tm.begin)
        IN  tm.elapsed = IF Lt64(d, tm.overhead) THEN Zero64 ELSE Sub64(d, tm.overhead)


(* ------------------------- claims: flp2 -------------------------------- *)
\* C35: for 1 <= x <= 2^31, flp2(x) is the smallest power of two >= x, the
\* value barrier_init of the first variant stores in n.
C35_Flp2LeastPow2AtLeast ==
    (icalled /\ Le32(One32, icount) /\ Le32(icount, TwoTo31)) =>
        /\ ibarrier.n = flp2(icount)
        /\ IsPow2_32(flp2(icount))
        /\ Le32(icount, flp2(icount))
        /\ Lt32(Shr32(flp2(icount), 1), icount)

====
